---- MODULE Spec2Model ----
(***************************************************************************)
(* Model of firebase.py: one run of main().  A run parses its arguments,   *)
(* builds a FirebaseChecker, normalizes and validates the URL, probes      *)
(* three read endpoints with GET, optionally probes write access with PUT  *)
(* (and a cleanup DELETE), prints a report and exits.                      *)
(*                                                                         *)
(* Strings that the code inspects character by character (the URL) are     *)
(* sequences of one-character strings.  Python dicts are functions from    *)
(* key strings to values.  Every library call that can block (get, put,    *)
(* delete, sleep) is one step whose outcome is chosen by the environment:  *)
(* a response, an exception, or a KeyboardInterrupt.  print() is taken not *)
(* to fail; only the report lines are kept, in the variable report.  Every *)
(* call that can raise is wrapped by a handler of the prober it is in, so  *)
(* no step of the model reaches main's last clause, except Exception.      *)
(*                                                                         *)
(* http_log, answers, interrupted and unexpected are history variables:    *)
(* the code never reads them, the properties do.                           *)
(***************************************************************************)
EXTENDS Integers, Sequences, FiniteSets, TLC

VARIABLES
    argv_url,         \* args.firebase_url, as typed on the command line
    skip_write_test,  \* args.skip_write_test
    arg_timeout,      \* args.timeout
    firebase_url,     \* checker.firebase_url
    pc,               \* the statement of main() the run is at
    idx,              \* position of the read loop in test_endpoints
    results,          \* the dict check_public_read_access builds
    test_url,         \* local test_url of check_public_write_access
    test_data,        \* local test_data of check_public_write_access
    write_result,     \* main's write_result
    cleanup,          \* what the cleanup branch printed
    http_log,         \* every request handed to the session, in order
    report,           \* the lines generate_report printed
    exit_code,        \* the arguments sys.exit was called with (at most one)
    interrupted,      \* a KeyboardInterrupt was delivered to the run
    answers,          \* what the session answered to each entry of http_log
    unexpected        \* a call raised an exception its try block does not name

vars == <<argv_url, skip_write_test, arg_timeout, firebase_url, pc, idx,
          results, test_url, test_data, write_result, cleanup, http_log,
          report, exit_code, interrupted, answers, unexpected>>

\* the parsed command line
args == <<argv_url, skip_write_test, arg_timeout>>
\* the locals and the result of check_public_write_access
writes == <<test_url, test_data, write_result, cleanup>>
\* the traffic of the session
http == <<http_log, answers>>

----------------------------------------------------------------------------
(* Bounds and program constants *)

\* time.time() returns a second in 1..MaxTime
MaxTime == 2

\* argparse default of --timeout
DefaultTimeout == 10
\* the timeout literal of session.get
GetTimeout == 10
\* the timeout literal of session.put
PutTimeout == 10
\* the timeout literal of session.delete
DeleteTimeout == 5
\* sys.exit codes of main
ExitSecure == 0
ExitInsecure == 1
ExitInvalidUrl == 2
ExitInterrupt == 130
\* response.text[:200]
SnippetLen == 200

----------------------------------------------------------------------------
(* Strings as character sequences *)

HTTP == <<"h", "t", "t", "p">>
HTTPS_SCHEME == <<"h", "t", "t", "p", "s", ":", "/", "/">>

\* the command lines explored: firebase_url arguments
InputUrls ==
    { <<>>,                                              \* ""
      <<"/">>,                                           \* "/"
      <<"a", "/", "/">>,                                 \* "a//"
      <<"/", "/", "a">>,                                 \* "//a"
      HTTP,                                              \* "http"
      HTTP \o <<"a">>,                                   \* "httpa"
      HTTP \o <<":", "a">>,                              \* "http:a"
      HTTPS_SCHEME,                                      \* "https://"
      HTTPS_SCHEME \o <<"/", "a">>,                      \* "https:///a"
      HTTPS_SCHEME \o <<"a", "/">> }                     \* "https://a/"

\* the values of --timeout explored
InputTimeouts == {DefaultTimeout, 30}

Min(S) == CHOOSE x \in S : \A y \in S : x <= y

\* str.startswith
StartsWith(s, p) == Len(s) >= Len(p) /\ SubSeq(s, 1, Len(p)) = p

\* str.rstrip('/')
RECURSIVE RStrip(_)
RStrip(s) ==
    IF s = <<>> THEN s
    ELSE IF s[Len(s)] = "/" THEN RStrip(SubSeq(s, 1, Len(s) - 1))
    ELSE s

\* str.find(c, from): the first position >= from holding c, 0 when there is none
Find(s, c, from) ==
    LET I == {i \in from..Len(s) : s[i] = c}
    IN  IF I = {} THEN 0 ELSE Min(I)

\* urllib.parse.scheme_chars, restricted to the characters of InputUrls
SchemeChars == {"h", "t", "p", "s", "a"}

\* urlsplit: position of the colon ending the scheme, 0 when the URL has none
SchemeEnd(url) ==
    LET i == Find(url, ":", 1)
    IN  IF i > 1 /\ url[1] \in SchemeChars
           /\ \A k \in 1..(i - 1) : url[k] \in SchemeChars
        THEN i ELSE 0

\* urlparse(url).netloc
Netloc(url) ==
    LET e    == SchemeEnd(url)
        rest == IF e > 0 THEN SubSeq(url, e + 1, Len(url)) ELSE url
        D    == {i \in 3..Len(rest) : rest[i] \in {"/", "?", "#"}}
        d    == IF D = {} THEN Len(rest) + 1 ELSE Min(D)
    IN  IF StartsWith(rest, <<"/", "/">>) THEN SubSeq(rest, 3, d - 1) ELSE <<>>

\* FirebaseChecker.__init__
StripUrl(raw) == RStrip(raw)

\* normalize_url's test for a missing scheme
LacksScheme(url) == ~StartsWith(url, HTTP)

\* normalize_url, up to the parse
WithScheme(url) == IF LacksScheme(url) THEN HTTPS_SCHEME \o url ELSE url

\* a validity test that accepts every URL
ValidUrlAlways(url) == TRUE

\* normalize_url's validity test
ValidUrl(url) == Netloc(url) # <<>>

----------------------------------------------------------------------------
(* Python dicts *)

EmptyDict == [k \in {} |-> TRUE]

\* d[k] = v
DictSet(d, k, v) ==
    [x \in DOMAIN d \cup {k} |-> IF x = k THEN v ELSE d[x]]

\* d.get(k, False) for a boolean entry
GetBool(d, k) == IF k \in DOMAIN d THEN d[k] ELSE FALSE


----------------------------------------------------------------------------
(* HTTP: what the session is asked and what it answers *)

\* test_endpoints of check_public_read_access
Endpoints == <<<<".json">>, <<"/.json?shallow=true">>, <<"/test.json">>>>

\* self.firebase_url + endpoint: a URL is a base and the parts appended to it
UrlOf(base, path) == [base |-> base, path |-> path]

\* the responses a GET may get: status, body (response.content) and the
\* Content-Type header ("" when the header is absent)
Responses ==
    { [status |-> 200, body |-> "",           ctype |-> ""],
      [status |-> 200, body |-> "null",       ctype |-> "application/json"],
      [status |-> 200, body |-> "{}",         ctype |-> "application/json"],
      [status |-> 200, body |-> "[]",         ctype |-> "application/json"],
      [status |-> 200, body |-> "\"\"",       ctype |-> "application/json"],
      [status |-> 200, body |-> "{\"a\":1}",  ctype |-> "application/json"],
      [status |-> 200, body |-> "<html>",     ctype |-> "text/html"],
      [status |-> 200, body |-> "[[[[...",    ctype |-> "application/json"],
      [status |-> 401, body |-> "{\"error\":\"Permission denied\"}",
                                              ctype |-> "application/json"] }

\* the exceptions a session call may raise: class and str(e)
Exceptions ==
    { [class |-> "Timeout",         msg |-> "timed out"],
      [class |-> "ConnectionError", msg |-> "refused"],
      [class |-> "Exception",       msg |-> ""] }

\* response.json(): the decoded Python value, or the exception raised.
\* "[[[[..." stands for a body nested deeper than the interpreter's recursion
\* limit, on which the decoder raises RecursionError, not JSONDecodeError.
JsonDecode(body) ==
    CASE body = "null"      -> [raised |-> "", type |-> "NoneType", size |-> 0]
      [] body = "{}"        -> [raised |-> "", type |-> "dict", size |-> 0]
      [] body = "[]"        -> [raised |-> "", type |-> "list", size |-> 0]
      [] body = "\"\""      -> [raised |-> "", type |-> "str",  size |-> 0]
      [] body = "{\"a\":1}" -> [raised |-> "", type |-> "dict", size |-> 1]
      [] body = "[[[[..."   -> [raised |-> "RecursionError", type |-> "", size |-> 0]
      [] OTHER              -> [raised |-> "JSONDecodeError", type |-> "", size |-> 0]

\* data is not None and data != {}
HasData(data) ==
    data.type # "NoneType" /\ ~(data.type = "dict" /\ data.size = 0)

\* response.headers.get('Content-Type', 'unknown')
ContentType(resp) == IF resp.ctype = "" THEN "unknown" ELSE resp.ctype

\* check_public_read_access: the entry stored for a response, before any
\* exception of response.json() other than JSONDecodeError
ProbeResult(resp) ==
    LET base == [status_code   |-> resp.status,
                 accessible    |-> resp.status = 200,
                 response_size |-> Len(resp.body),
                 content_type  |-> ContentType(resp)]
        data == JsonDecode(resp.body)
    IN  IF resp.status = 200 /\ resp.body # ""
        THEN IF data.raised = ""
             THEN DictSet(DictSet(base, "has_data", HasData(data)),
                          "data_type", data.type)
             ELSE DictSet(DictSet(base, "has_data", FALSE),
                          "data_type", "invalid_json")
        ELSE base

\* check_public_read_access: whether response.json() raises an exception that
\* except json.JSONDecodeError does not catch
DecodeEscapes(resp) ==
    /\ resp.status = 200 /\ resp.body # ""
    /\ JsonDecode(resp.body).raised \notin {"", "JSONDecodeError"}

\* check_public_read_access: the entry stored by the three except clauses
ReadError(exc) ==
    CASE exc.class = "Timeout"         -> [error |-> "Request timed out"]
      [] exc.class = "ConnectionError" -> [error |-> "Connection error"]
      [] OTHER                         -> [error |-> exc.msg]

\* session.get(url, timeout=10)
GetRequest(url) == [method |-> "GET", url |-> url, timeout |-> GetTimeout]

\* a loop that stops one endpoint short
AfterEndpointShort(i) ==
    IF i < Len(Endpoints) - 1 THEN "read_get" ELSE "after_read"

\* the statement after one iteration of the read loop
AfterEndpoint(i) == IF i < Len(Endpoints) THEN "read_get" ELSE "after_read"
NextIdx(i) == IF i < Len(Endpoints) THEN i + 1 ELSE i

\* the responses a PUT may get: status and len(response.text)
PutResponses ==
    { [status |-> 200, text_len |-> 48],
      [status |-> 201, text_len |-> 48],
      [status |-> 204, text_len |-> 0],
      [status |-> 401, text_len |-> 300] }

\* what the session answered: an HTTP status, an exception or an interrupt
Answered(status, body) ==
    [status |-> status, body |-> body, raised |-> "", msg |-> ""]
Raised(exc) ==
    [status |-> 0, body |-> "", raised |-> exc.class, msg |-> exc.msg]
Interrupted ==
    [status |-> 0, body |-> "", raised |-> "KeyboardInterrupt", msg |-> ""]

\* the session is handed request req and answers with ans
Send(req, ans) ==
    /\ http_log' = Append(http_log, req)
    /\ answers' = Append(answers, ans)

\* the readings of int(time.time())
Times == 1..MaxTime

\* the statuses a DELETE may get
DeleteStatuses == {200, 401}

\* f"{self.firebase_url}/security_test_{int(time.time())}.json"
TestUrl(base, t) == UrlOf(base, <<"/security_test_", ToString(t), ".json">>)

\* {"test": "security_check", "timestamp": int(time.time())}
TestData(t) == [test |-> "security_check", timestamp |-> t]

\* session.put(test_url, json=test_data, timeout=10)
PutRequest(url, data) ==
    [method |-> "PUT", url |-> url, json |-> data, timeout |-> PutTimeout]

\* the URL the cleanup request is sent to
CleanupUrl == test_url

\* session.delete(test_url, timeout=5)
DeleteRequest(url) ==
    [method |-> "DELETE", url |-> url, timeout |-> DeleteTimeout]

\* every 2xx status taken as a successful write
WritableStatusAny2xx(status) == status \in {200, 201, 204}

\* response.status_code in [200, 201]
WritableStatus(status) == status \in {200, 201}

\* check_public_write_access: write_result for a response; the snippet
\* response.text[:200] is kept by its length
WriteResult(resp) ==
    [status_code |-> resp.status,
     writable    |-> WritableStatus(resp.status),
     response    |-> IF resp.text_len > 0
                     THEN Min({resp.text_len, SnippetLen}) ELSE 0]

\* check_public_write_access: except Exception as e
WriteError(exc) == [error |-> exc.msg]

\* the flag ignored: the write probe always runs
SkipsWriteNever == FALSE

\* main: if not args.skip_write_test
SkipsWrite == skip_write_test

----------------------------------------------------------------------------
(* generate_report *)

\* any(result.get('accessible', False) for result in read_results.values())
PublicReadable(read_results) ==
    \E e \in DOMAIN read_results : GetBool(read_results[e], "accessible")

\* any(result.get('has_data', False) for result in read_results.values())
AnyHasData(read_results) ==
    \E e \in DOMAIN read_results : GetBool(read_results[e], "has_data")

\* write_result.get('writable', False)
Writable(w) == GetBool(w, "writable")

\* the truth value of write_result.get('error')
ErrorSet(w) == IF "error" \in DOMAIN w THEN w["error"] # "" ELSE FALSE

\* the verdict computed from the read probes alone
IsInsecureReadOnly(read_results, w) == PublicReadable(read_results)

\* the value generate_report returns
IsInsecure(read_results, w) == PublicReadable(read_results) \/ Writable(w)

\* the READ ACCESS line
ReadLine(read_results) ==
    IF PublicReadable(read_results)
    THEN "PUBLICLY READABLE - No authentication required!"
    ELSE "Read access properly restricted"

\* the line under PUBLICLY READABLE
DataLine(read_results) ==
    IF PublicReadable(read_results)
    THEN IF AnyHasData(read_results)
         THEN "Database contains data that is publicly accessible"
         ELSE "Database is empty or contains null values"
    ELSE ""

\* the WRITE ACCESS line
WriteLine(w) ==
    IF Writable(w) THEN "PUBLICLY WRITABLE - Anyone can modify data!"
    ELSE IF ErrorSet(w) THEN "Could not test write access"
    ELSE "Write access properly restricted"

\* the OVERALL SECURITY STATUS line
OverallLine(read_results, w) ==
    IF IsInsecure(read_results, w)
    THEN "INSECURE - Immediate action required!"
    ELSE "Database appears to be properly secured"

\* the DETAILED RESULTS block: per endpoint, the Status line printed
DetailLines(read_results) ==
    [e \in DOMAIN read_results |->
        IF "error" \in DOMAIN read_results[e]
        THEN "Status: Error" ELSE "Status Code"]

\* everything generate_report prints
Report(read_results, w) ==
    [read     |-> ReadLine(read_results),
     data     |-> DataLine(read_results),
     write    |-> WriteLine(w),
     overall  |-> OverallLine(read_results, w),
     details  |-> DetailLines(read_results)]

----------------------------------------------------------------------------

Init ==
    /\ argv_url \in InputUrls
    /\ skip_write_test \in BOOLEAN
    /\ arg_timeout \in InputTimeouts
    /\ firebase_url = <<>>
    /\ pc = "start"
    /\ idx = 0
    /\ results = EmptyDict
    /\ test_url = EmptyDict
    /\ test_data = EmptyDict
    /\ write_result = EmptyDict
    /\ cleanup = ""
    /\ http_log = <<>>
    /\ report = EmptyDict
    /\ exit_code = <<>>
    /\ interrupted = FALSE
    /\ answers = <<>>
    /\ unexpected = FALSE

\* main: checker = FirebaseChecker(args.firebase_url)
Construct ==
    /\ pc = "start"
    /\ firebase_url' = StripUrl(argv_url)
    /\ pc' = "normalize"
    /\ UNCHANGED <<args, idx, results, writes, http, report, exit_code,
                   interrupted, unexpected>>

\* main: normalized_url = checker.normalize_url(), the URL accepted
NormalizeOk ==
    /\ pc = "normalize"
    /\ ValidUrl(WithScheme(firebase_url))
    /\ firebase_url' = WithScheme(firebase_url)
    /\ pc' = "read_get"
    /\ idx' = 1
    /\ results' = EmptyDict
    /\ UNCHANGED <<args, writes, http, report, exit_code, interrupted,
                   unexpected>>

\* main: normalize_url raises ValueError, caught by except ValueError
NormalizeInvalid ==
    /\ pc = "normalize"
    /\ ~ValidUrl(WithScheme(firebase_url))
    /\ firebase_url' = WithScheme(firebase_url)
    /\ pc' = "exited"
    /\ exit_code' = <<ExitInvalidUrl>>
    /\ UNCHANGED <<args, idx, results, writes, http, report, interrupted,
                   unexpected>>

\* check_public_read_access: session.get returns a response
ReadResponse(resp) ==
    /\ pc = "read_get"
    /\ Send(GetRequest(UrlOf(firebase_url, Endpoints[idx])),
            Answered(resp.status, resp.body))
    /\ IF DecodeEscapes(resp)
       THEN \* except Exception as e: the entry is replaced, the sleep skipped
            /\ results' = DictSet(results, Endpoints[idx],
                                  [error |-> "maximum recursion depth exceeded"])
            /\ unexpected' = TRUE
            /\ pc' = AfterEndpoint(idx)
            /\ idx' = NextIdx(idx)
       ELSE /\ results' = DictSet(results, Endpoints[idx], ProbeResult(resp))
            /\ unexpected' = unexpected
            /\ pc' = "read_sleep"
            /\ idx' = idx
    /\ UNCHANGED <<args, firebase_url, writes, report, exit_code,
                   interrupted>>

\* check_public_read_access: session.get raises
ReadException(exc) ==
    /\ pc = "read_get"
    /\ Send(GetRequest(UrlOf(firebase_url, Endpoints[idx])), Raised(exc))
    /\ results' = DictSet(results, Endpoints[idx], ReadError(exc))
    /\ pc' = AfterEndpoint(idx)
    /\ idx' = NextIdx(idx)
    /\ UNCHANGED <<args, firebase_url, writes, report, exit_code,
                   interrupted, unexpected>>

\* KeyboardInterrupt while session.get is in flight: no except clause of the
\* loop catches it, main's except KeyboardInterrupt does
ReadInterrupt ==
    /\ pc = "read_get"
    /\ Send(GetRequest(UrlOf(firebase_url, Endpoints[idx])), Interrupted)
    /\ interrupted' = TRUE
    /\ pc' = "exited"
    /\ exit_code' = <<ExitInterrupt>>
    /\ UNCHANGED <<args, firebase_url, idx, results, writes, report,
                   unexpected>>

\* check_public_read_access: time.sleep(0.5) returns
ReadSleep ==
    /\ pc = "read_sleep"
    /\ pc' = AfterEndpoint(idx)
    /\ idx' = NextIdx(idx)
    /\ UNCHANGED <<args, firebase_url, results, writes, http, report,
                   exit_code, interrupted, unexpected>>

\* KeyboardInterrupt during time.sleep(0.5)
SleepInterrupt ==
    /\ pc = "read_sleep"
    /\ interrupted' = TRUE
    /\ pc' = "exited"
    /\ exit_code' = <<ExitInterrupt>>
    /\ UNCHANGED <<args, firebase_url, idx, results, writes, http, report,
                   unexpected>>

\* main: --skip-write-test given, write_result stays {}
SkipWrite ==
    /\ pc = "after_read"
    /\ SkipsWrite
    /\ write_result' = EmptyDict
    /\ pc' = "report"
    /\ UNCHANGED <<args, firebase_url, idx, results, test_url, test_data,
                   cleanup, http, report, exit_code, interrupted, unexpected>>

\* main calls check_public_write_access, which builds test_url and test_data
\* from two readings t1 <= t2 of the clock
BeginWrite(t1, t2) ==
    /\ pc = "after_read"
    /\ ~SkipsWrite
    /\ t1 <= t2
    /\ write_result' = EmptyDict
    /\ test_url' = TestUrl(firebase_url, t1)
    /\ test_data' = TestData(t2)
    /\ pc' = "write_put"
    /\ UNCHANGED <<args, firebase_url, idx, results, cleanup, http, report,
                   exit_code, interrupted, unexpected>>

\* check_public_write_access: session.put returns a response
WriteResponse(resp) ==
    /\ pc = "write_put"
    /\ Send(PutRequest(test_url, test_data), Answered(resp.status, ""))
    /\ write_result' = WriteResult(resp)
    /\ pc' = IF WriteResult(resp).writable THEN "write_delete" ELSE "report"
    /\ UNCHANGED <<args, firebase_url, idx, results, test_url, test_data,
                   cleanup, report, exit_code, interrupted, unexpected>>

\* check_public_write_access: session.put raises, except Exception as e
WriteException(exc) ==
    /\ pc = "write_put"
    /\ Send(PutRequest(test_url, test_data), Raised(exc))
    /\ write_result' = WriteError(exc)
    /\ pc' = "report"
    /\ UNCHANGED <<args, firebase_url, idx, results, test_url, test_data,
                   cleanup, report, exit_code, interrupted, unexpected>>

\* KeyboardInterrupt while session.put is in flight: except Exception does
\* not catch it, main's except KeyboardInterrupt does
WriteInterrupt ==
    /\ pc = "write_put"
    /\ Send(PutRequest(test_url, test_data), Interrupted)
    /\ interrupted' = TRUE
    /\ pc' = "exited"
    /\ exit_code' = <<ExitInterrupt>>
    /\ UNCHANGED <<args, firebase_url, idx, results, writes, report,
                   unexpected>>

\* cleanup: session.delete returns (whatever the status)
CleanupDone(status) ==
    /\ pc = "write_delete"
    /\ Send(DeleteRequest(CleanupUrl), Answered(status, ""))
    /\ cleanup' = "Cleaned up test data"
    /\ pc' = "report"
    /\ UNCHANGED <<args, firebase_url, idx, results, test_url, test_data,
                   write_result, report, exit_code, interrupted, unexpected>>

\* cleanup: session.delete raises, the bare except prints and goes on
CleanupFailed(exc) ==
    /\ pc = "write_delete"
    /\ Send(DeleteRequest(CleanupUrl), Raised(exc))
    /\ cleanup' = "Could not clean up test data"
    /\ pc' = "report"
    /\ UNCHANGED <<args, firebase_url, idx, results, test_url, test_data,
                   write_result, report, exit_code, interrupted, unexpected>>

\* KeyboardInterrupt while session.delete is in flight: the bare except
\* catches BaseException, so the interrupt ends there and the run goes on
CleanupInterrupt ==
    /\ pc = "write_delete"
    /\ Send(DeleteRequest(CleanupUrl), Interrupted)
    /\ interrupted' = TRUE
    /\ cleanup' = "Could not clean up test data"
    /\ pc' = "report"
    /\ UNCHANGED <<args, firebase_url, idx, results, test_url, test_data,
                   write_result, report, exit_code, unexpected>>

\* main: is_insecure = checker.generate_report(...); sys.exit(1 if ... else 0)
ReportAndExit ==
    /\ pc = "report"
    /\ report' = Report(results, write_result)
    /\ exit_code' = IF IsInsecure(results, write_result)
                    THEN <<ExitInsecure>> ELSE <<ExitSecure>>
    /\ pc' = "exited"
    /\ UNCHANGED <<args, firebase_url, idx, results, writes, http,
                   interrupted, unexpected>>

Next ==
    \/ Construct
    \/ NormalizeOk
    \/ NormalizeInvalid
    \/ \E resp \in Responses : ReadResponse(resp)
    \/ \E exc \in Exceptions : ReadException(exc)
    \/ ReadInterrupt
    \/ ReadSleep
    \/ SleepInterrupt
    \/ SkipWrite
    \/ \E t1, t2 \in Times : BeginWrite(t1, t2)
    \/ \E resp \in PutResponses : WriteResponse(resp)
    \/ \E exc \in Exceptions : WriteException(exc)
    \/ WriteInterrupt
    \/ \E status \in DeleteStatuses : CleanupDone(status)
    \/ \E exc \in Exceptions : CleanupFailed(exc)
    \/ CleanupInterrupt
    \/ ReportAndExit

Spec == Init /\ [][Next]_vars

----------------------------------------------------------------------------
(* Vocabulary of the properties: what the session was asked and answered *)

Sent == 1..Len(http_log)
Exited == pc = "exited"
ExitedWith(code) == pc = "exited" /\ exit_code = <<code>>
Printed == DOMAIN report # {}

\* request i got an HTTP response / raised an exception / was interrupted
GotStatus(i) == answers[i].raised = ""
GotException(i) == answers[i].raised \notin {"", "KeyboardInterrupt"}

SomeReadReturned200 ==
    \E i \in Sent : /\ http_log[i].method = "GET"
                    /\ GotStatus(i) /\ answers[i].status = 200
WriteReturned200or201 ==
    \E i \in Sent : /\ http_log[i].method = "PUT"
                    /\ GotStatus(i) /\ answers[i].status \in {200, 201}

\* a run of main() with a valid URL that ended neither by an interrupt nor
\* after an exception no except clause names
CleanRun ==
    /\ Exited
    /\ Netloc(firebase_url) # <<>>
    /\ ~interrupted
    /\ ~unexpected

----------------------------------------------------------------------------
(* C1: a run with a valid URL, not interrupted and hit by no unexpected    *)
(* exception, exits 1 and prints INSECURE exactly when some read probe     *)
(* returned HTTP 200 or the write probe returned 200 or 201; in every      *)
(* other case it exits 0 and prints that the database appears to be        *)
(* properly secured.                                                       *)
C1_ExitCodeIsExposure ==
    CleanRun =>
        IF SomeReadReturned200 \/ WriteReturned200or201
        THEN /\ exit_code = <<ExitInsecure>>
             /\ report.overall = "INSECURE - Immediate action required!"
        ELSE /\ exit_code = <<ExitSecure>>
             /\ report.overall = "Database appears to be properly secured"

\* reads all refused, the PUT accepted with 201: insecure by the write alone
C1_Witness ==
    /\ CleanRun
    /\ ~SomeReadReturned200
    /\ \E i \in Sent : http_log[i].method = "PUT" /\ answers[i].status = 201
    /\ exit_code = <<ExitInsecure>>

(* C2: a URL whose host is empty after normalization makes the run exit    *)
(* with code 2 without any request having been issued, and no request is   *)
(* issued before the URL has been validated.                               *)
C2_MalformedUrlExits2 ==
    /\ pc \in {"start", "normalize"} => http_log = <<>>
    /\ (pc \notin {"start", "normalize"} /\ Netloc(firebase_url) = <<>>) =>
           /\ ExitedWith(ExitInvalidUrl)
           /\ http_log = <<>>

\* "https:///a" was given: scheme present, host empty
C2_Witness ==
    /\ argv_url = HTTPS_SCHEME \o <<"/", "a">>
    /\ ExitedWith(ExitInvalidUrl)
    /\ http_log = <<>>

(* C3: with --skip-write-test every request of the run is a GET: no PUT    *)
(* and no DELETE is ever issued, whatever the read probes returned.        *)
C3_SkipIssuesOnlyGets ==
    skip_write_test => \A i \in Sent : http_log[i].method = "GET"

\* a skipped run that found the database readable and went on to exit 1
C3_Witness ==
    /\ skip_write_test
    /\ ExitedWith(ExitInsecure)
    /\ Len(http_log) = Len(Endpoints)
    /\ SomeReadReturned200

(* C4: a user interrupt is mapped to exit code 130 wherever it arrives     *)
(* (GET, delay, PUT or DELETE in flight): a run that was interrupted exits *)
(* with code 130, never with 0 or 1.                                       *)
C4_InterruptExits130 ==
    (interrupted /\ Exited) => exit_code = <<ExitInterrupt>>

(* C5: every read-probe GET and the write-probe PUT is issued with the     *)
(* timeout given by --timeout (10 when the flag is absent).                *)
C5_TimeoutFlagUsed ==
    \A i \in Sent :
        http_log[i].method \in {"GET", "PUT"} =>
            http_log[i].timeout = arg_timeout

(* C6: for every input without a scheme, host names beginning with "http"  *)
(* included, the normalizer leaves https:// followed by the input with its *)
(* trailing slashes stripped.                                              *)
C6_SchemelessGetsHttps ==
    (pc \notin {"start", "normalize"} /\ SchemeEnd(argv_url) = 0) =>
        firebase_url = HTTPS_SCHEME \o RStrip(argv_url)

(* C7: the read prober issues exactly one GET per endpoint, in the order   *)
(* root, shallow query, test path, before any other request; a GET that    *)
(* raises leaves an error entry for its endpoint and probing goes on with  *)
(* the next endpoint; the map returned has exactly three entries, each     *)
(* either a status result or an error.                                     *)
C7_ThreeGetsInOrder ==
    /\ \A i \in Sent :
          IF i <= Len(Endpoints)
          THEN http_log[i] = GetRequest(UrlOf(firebase_url, Endpoints[i]))
          ELSE http_log[i].method # "GET"
    /\ \A i \in Sent :
          (i <= Len(Endpoints) /\ GotException(i)) =>
              /\ Endpoints[i] \in DOMAIN results
              /\ DOMAIN results[Endpoints[i]] = {"error"}
              /\ (i = Len(http_log) /\ i < Len(Endpoints)) =>
                     (pc = "read_get" /\ idx = i + 1)
              /\ (i = Len(http_log) /\ i = Len(Endpoints)) =>
                     /\ pc \notin {"read_get", "read_sleep"}
                     /\ Exited => Printed
    /\ pc \in {"after_read", "write_put", "write_delete", "report"} =>
          /\ DOMAIN results = {Endpoints[i] : i \in 1..Len(Endpoints)}
          /\ Cardinality(DOMAIN results) = 3
          /\ Len(http_log) >= 3
          /\ \A e \in DOMAIN results :
                ("error" \in DOMAIN results[e])
                    # ("status_code" \in DOMAIN results[e])

\* timeout, then connection failure, then a 200: all three were probed
C7_Witness ==
    /\ pc = "after_read"
    /\ answers[1].raised = "Timeout"
    /\ answers[2].raised = "ConnectionError"
    /\ answers[3].status = 200
    /\ GetBool(results[Endpoints[3]], "accessible")

(* C8: whenever the write-probe PUT raises an exception, whatever its      *)
(* message (the empty string included), the report states that write       *)
(* access could not be tested, never that it is properly restricted.       *)
C8_PutExceptionReported ==
    (Printed /\ \E i \in Sent : http_log[i].method = "PUT" /\ GotException(i))
        => report.write = "Could not test write access"

(* C9: the cleanup DELETE is issued at most once, only right after a PUT   *)
(* that returned 200 or 201, and to the URL of that PUT; whatever becomes  *)
(* of the DELETE, the write result keeps writable = true with the PUT's    *)
(* status, the report says publicly writable and the exit code is 1.       *)
C9_CleanupAfterWritablePut ==
    /\ Cardinality({i \in Sent : http_log[i].method = "DELETE"}) <= 1
    /\ \A i \in Sent :
          http_log[i].method = "DELETE" =>
              /\ i > 1
              /\ http_log[i - 1].method = "PUT"
              /\ GotStatus(i - 1)
              /\ answers[i - 1].status \in {200, 201}
              /\ http_log[i].url = http_log[i - 1].url
              /\ write_result.writable
              /\ write_result.status_code = answers[i - 1].status
              /\ Exited =>
                     /\ report.write
                            = "PUBLICLY WRITABLE - Anyone can modify data!"
                     /\ exit_code = <<ExitInsecure>>
    /\ \A i \in Sent :
          (http_log[i].method = "PUT" /\ i < Len(http_log)) =>
              (GotStatus(i) /\ answers[i].status \in {200, 201})

\* the DELETE failed on a database whose reads are all refused
C9_Witness ==
    /\ ExitedWith(ExitInsecure)
    /\ ~SomeReadReturned200
    /\ \E i \in Sent : http_log[i].method = "DELETE" /\ GotException(i)
    /\ cleanup = "Could not clean up test data"

\* C10's reading of "non-null and non-empty": null, {}, [] and "" carry no data
NonNullNonEmpty(data) ==
    /\ data.type # "NoneType"
    /\ ~(data.type \in {"dict", "list", "str"} /\ data.size = 0)

(* C10: for a read probe answered 200 with a non-empty body that decodes   *)
(* as JSON, has_data is true exactly when the decoded value is non-null    *)
(* and non-empty; on a decode failure it is false; for a non-200 status or *)
(* an empty body it is not recorded; and the report says data is exposed   *)
(* only if some accessible probe has has_data = true.                      *)
C10_HasDataIffNonEmpty ==
    /\ \A i \in Sent :
          (i <= Len(Endpoints) /\ GotStatus(i)
             /\ "status_code" \in DOMAIN results[Endpoints[i]]) =>
              LET r    == results[Endpoints[i]]
                  body == answers[i].body
                  data == JsonDecode(body)
              IN  IF answers[i].status = 200 /\ body # ""
                  THEN IF data.raised = ""
                       THEN r.has_data = NonNullNonEmpty(data)
                       ELSE r.has_data = FALSE
                  ELSE "has_data" \notin DOMAIN r
    /\ (Printed /\ report.data
                     = "Database contains data that is publicly accessible")
          => \E e \in DOMAIN results :
                 GetBool(results[e], "accessible")
                     /\ GetBool(results[e], "has_data")

====
